---- MODULE Spec2Model ----
(***************************************************************************)
(* Slotted-page storage of crates/storage/src/lib.rs: one 8192-byte page   *)
(* per file, an 18-byte header, a pointer directory growing up from byte   *)
(* 18 and a tuple area growing down from byte 8192.                        *)
(***************************************************************************)
EXTENDS Integers, Sequences, FiniteSets, TLC

VARIABLES exists, page, stored, spans, calls, last, wr, inv, overlap

\* the state of the invocations of write_metadata taken step by step
conc == <<wr, inv, overlap>>

vars == <<exists, page, stored, spans, calls, last, wr, inv, overlap>>

\* ---------------------------------------------------------------- bounds
MaxBatch == 2
MaxRecords == 2
MaxCalls == 3
MaxInv == 2

\* ------------------------------------------------------------- constants
PAGE_SIZE == 8192

U16 == 65536

\* v as u16
as_u16(v) == v % U16

\* ------------------------------------------------- little-endian integers
u16_to_le(v) == <<v % 256, (v \div 256) % 256>>

\* the page is the sequence of its bytes: the byte at offset off
at(pg, off) == pg[off + 1]

u16_from_le(pg, off) == at(pg, off) + 256 * at(pg, off + 1)

\* TLC's integers are 32-bit and signed: a u32 is held as its two 16-bit
\* halves <<low, high>>, a u64 as its two u32 halves; v is below 2^31
u32(v) == <<v % U16, v \div U16>>

u64(v) == <<u32(v), u32(0)>>

u32_to_le(w) == u16_to_le(w[1]) \o u16_to_le(w[2])

u64_to_le(d) == u32_to_le(d[1]) \o u32_to_le(d[2])

u32_from_le(pg, off) == <<u16_from_le(pg, off), u16_from_le(pg, off + 2)>>

u64_from_le(pg, off) == <<u32_from_le(pg, off), u32_from_le(pg, off + 4)>>

\* page[start .. start + len).copy_from_slice(bytes)
copy_from_slice(pg, start, bytes) ==
  SubSeq(pg, 1, start) \o bytes \o SubSeq(pg, start + Len(bytes) + 1, Len(pg))

\* page[start .. start + len).to_vec()
to_vec(pg, start, len) == SubSeq(pg, start + 1, start + len)

\* [0u8; PAGE_SIZE]
ZeroPage == [i \in 1 .. PAGE_SIZE |-> 0]

\* Storage::new(): the byte ranges of the six header fields
header_offsets ==
  [lsn |-> <<0, 8>>, checksum |-> <<8, 10>>, flags |-> <<10, 12>>,
   lower |-> <<12, 14>>, higher |-> <<14, 16>>, special_space |-> <<16, 18>>]

Lsn(pg) == u64_from_le(pg, header_offsets.lsn[1])
Checksum(pg) == u16_from_le(pg, header_offsets.checksum[1])
Flags(pg) == u16_from_le(pg, header_offsets.flags[1])
Lower(pg) == u16_from_le(pg, header_offsets.lower[1])
Higher(pg) == u16_from_le(pg, header_offsets.higher[1])
SpecialSpace(pg) == u16_from_le(pg, header_offsets.special_space[1])

\* ------------------------------------------------------------ page create
\* a create that leaves the directory end at the start of the page
create_lower_unset ==
  LET p0 == ZeroPage
      p1 == copy_from_slice(p0, 0, u64_to_le(u64(12345678)))
      p2 == copy_from_slice(p1, 8, u16_to_le(42))
      p3 == copy_from_slice(p2, 10, u16_to_le(40))
      p5 == copy_from_slice(p3, 14, u16_to_le(as_u16(PAGE_SIZE)))
      p6 == copy_from_slice(p5, 16, u16_to_le(as_u16(PAGE_SIZE)))
  IN  p6

create_postgres_file ==
  LET p0 == ZeroPage
      p1 == copy_from_slice(p0, 0, u64_to_le(u64(12345678)))
      p2 == copy_from_slice(p1, 8, u16_to_le(42))
      p3 == copy_from_slice(p2, 10, u16_to_le(40))
      p4 == copy_from_slice(p3, 12, u16_to_le(18))
      p5 == copy_from_slice(p4, 14, u16_to_le(as_u16(PAGE_SIZE)))
      p6 == copy_from_slice(p5, 16, u16_to_le(as_u16(PAGE_SIZE)))
  IN  p6

\* ------------------------------------------------------- catalog encoders
\* the closure of write_postgres_class: id, name length as u16, name bytes
encode_class(table) ==
  u32_to_le(table.table_id)
    \o u16_to_le(as_u16(Len(table.table_name)))
    \o table.table_name

\* the closure of write_postgres_attribute
encode_attribute(column) ==
  u32_to_le(column.column_id)
    \o u32_to_le(column.table_id)
    \o u16_to_le(as_u16(Len(column.column_name)))
    \o column.column_name
    \o u16_to_le(as_u16(Len(column.data_type)))
    \o column.data_type
    \o <<IF column.is_nullable THEN 1 ELSE 0>>

\* the closures handed to write_metadata as calculate_size, by name; both
\* callers hand it |entry| entry.len()
calculate_size(f, entry) == IF f = "entry_len" THEN Len(entry) ELSE 0

\* ------------------------------------------------------------- write path
\* the rejection test of the allocation loop
space_exhausted(lower, higher, entry_size) ==
  higher < as_u16(entry_size) \/ lower + 2 > PAGE_SIZE

\* an iteration that forgets to advance lower
write_entry_no_bump(st, entry, entry_size) ==
  IF space_exhausted(st.lower, st.higher, entry_size)
  THEN [st EXCEPT !.result = "err"]
  ELSE LET higher == st.higher - as_u16(entry_size)
       IN  [st EXCEPT !.page = copy_from_slice(
                                 copy_from_slice(st.page, st.lower, u16_to_le(higher)),
                                 higher, entry),
                      !.higher = higher]

\* one iteration of the loop over the entries; st carries the in-memory
\* page and the two cursors; a slice that leaves the page panics
write_entry(st, entry, entry_size) ==
  IF space_exhausted(st.lower, st.higher, entry_size)
  THEN [st EXCEPT !.result = "err"]
  ELSE LET higher == st.higher - as_u16(entry_size)
           lower == st.lower + 2
       IN  IF \/ st.lower + 2 > PAGE_SIZE
              \/ higher + entry_size > PAGE_SIZE
              \/ Len(entry) # entry_size
           THEN [st EXCEPT !.result = "panic"]
           ELSE [result |-> "ok",
                 page |-> copy_from_slice(
                            copy_from_slice(st.page, st.lower, u16_to_le(higher)),
                            higher, entry),
                 lower |-> lower,
                 higher |-> higher,
                 k |-> st.k]

RECURSIVE write_entries(_, _, _, _)
write_entries(st, entries, sizes, i) ==
  IF i > Len(entries) THEN st
  ELSE LET nx == write_entry([st EXCEPT !.k = i], entries[i], sizes[i])
       IN  IF nx.result = "ok" THEN write_entries(nx, entries, sizes, i + 1)
           ELSE nx

\* a load that takes a freshly formatted page in place of the file's
read_exact_fresh(pg) == create_postgres_file

\* file.read_exact(&mut page): the buffer holds the page of the file
read_exact(pg) == SubSeq(pg, 1, PAGE_SIZE)

\* a write-back that leaves out lower
write_header_higher_only(st) ==
  copy_from_slice(st.page, header_offsets.higher[1], u16_to_le(st.higher))

\* the header fields written back after the loop
write_header(st) ==
  copy_from_slice(
    copy_from_slice(st.page, header_offsets.higher[1], u16_to_le(st.higher)),
    header_offsets.lower[1], u16_to_le(st.lower))

\* a persist that also writes the buffer of an aborted call
persist_aborted(pg, st) ==
  [result |-> st.result, page |-> write_header(st),
   k |-> IF st.result = "ok" THEN 0 ELSE st.k]

\* how the call ends: the early return leaves the file as it was, the end
\* of the loop writes the header and the whole buffer at offset 0
persist(pg, st) ==
  IF st.result = "ok"
  THEN [result |-> "ok", page |-> write_header(st), k |-> 0]
  ELSE [result |-> st.result, page |-> pg, k |-> st.k]

\* write_metadata on the page the file holds: the page the file holds
\* afterwards, the result, and the index of the entry the call stopped at
write_metadata(pg, entries, f) ==
  LET sizes == [i \in 1 .. Len(entries) |-> calculate_size(f, entries[i])]
      buf == read_exact(pg)
      st0 == [result |-> "ok", page |-> buf,
              lower |-> Lower(buf), higher |-> Higher(buf), k |-> 0]
  IN  persist(pg, write_entries(st0, entries, sizes, 1))

write_postgres_class(pg, tables_metadata) ==
  write_metadata(pg,
                 [i \in 1 .. Len(tables_metadata) |-> encode_class(tables_metadata[i])],
                 "entry_len")

write_postgres_attribute(pg, columns_metadata) ==
  write_metadata(pg,
                 [i \in 1 .. Len(columns_metadata) |-> encode_attribute(columns_metadata[i])],
                 "entry_len")

\* -------------------------------------------------------------- read path
IsCont(b) == b \in 128 .. 191

\* continuation bytes a lead byte announces (0: not a lead byte)
Need(b) ==
  IF b \in 194 .. 223 THEN 1
  ELSE IF b \in 224 .. 239 THEN 2
  ELSE IF b \in 240 .. 244 THEN 3
  ELSE 0

\* the range of the first continuation byte after lead byte b
FirstCont(b) ==
  IF b = 224 THEN 160 .. 191
  ELSE IF b = 237 THEN 128 .. 159
  ELSE IF b = 240 THEN 144 .. 191
  ELSE IF b = 244 THEN 128 .. 143
  ELSE 128 .. 191

\* String::from_utf8(bytes) is Ok
is_utf8(s) ==
  \A i \in 1 .. Len(s) :
     \/ s[i] < 128
     \/ /\ IsCont(s[i])
        /\ \E j \in 1 .. 3 :
              /\ i - j >= 1
              /\ Need(s[i - j]) >= j
              /\ \A m \in 1 .. (j - 1) : IsCont(s[i - m])
     \/ /\ Need(s[i]) > 0
        /\ i + Need(s[i]) <= Len(s)
        /\ s[i + 1] \in FirstCont(s[i])
        /\ \A j \in 1 .. Need(s[i]) : IsCont(s[i + j])

\* the closure of read_postgres_class; ok is FALSE where the closure panics
\* (a slice past the page, or a name that is not UTF-8)
parse_class(pg, pointer) ==
  IF pointer + 6 > PAGE_SIZE THEN [ok |-> FALSE]
  ELSE LET table_id == u32_from_le(pg, pointer)
           table_name_length == u16_from_le(pg, pointer + 4)
           offset == pointer + 6
       IN  IF offset + table_name_length > PAGE_SIZE THEN [ok |-> FALSE]
           ELSE LET table_name == to_vec(pg, offset, table_name_length)
                IN  IF ~is_utf8(table_name) THEN [ok |-> FALSE]
                    ELSE [ok |-> TRUE,
                          entry |-> [table_id |-> table_id,
                                     table_name |-> table_name],
                          offset |-> offset + table_name_length]

\* the closure of read_postgres_attribute
parse_attribute(pg, pointer) ==
  IF pointer + 10 > PAGE_SIZE THEN [ok |-> FALSE]
  ELSE LET column_id == u32_from_le(pg, pointer)
           table_id == u32_from_le(pg, pointer + 4)
           column_name_length == u16_from_le(pg, pointer + 8)
           o1 == pointer + 10
       IN  IF o1 + column_name_length + 2 > PAGE_SIZE THEN [ok |-> FALSE]
           ELSE LET column_name == to_vec(pg, o1, column_name_length)
                    o2 == o1 + column_name_length
                    data_type_length == u16_from_le(pg, o2)
                    o3 == o2 + 2
                IN  IF o3 + data_type_length + 1 > PAGE_SIZE THEN [ok |-> FALSE]
                    ELSE LET data_type == to_vec(pg, o3, data_type_length)
                             o4 == o3 + data_type_length
                         IN  IF ~is_utf8(column_name) \/ ~is_utf8(data_type)
                             THEN [ok |-> FALSE]
                             ELSE [ok |-> TRUE,
                                   entry |-> [column_id |-> column_id,
                                              table_id |-> table_id,
                                              column_name |-> column_name,
                                              data_type |-> data_type,
                                              is_nullable |-> at(pg, o4) # 0],
                                   offset |-> o4 + 1]

\* the directory scan: the pointers at 18, 20, ... below lower
scan_pointers(pg) ==
  LET lower == Lower(pg)
      n == IF lower > 18 THEN (lower - 18 + 1) \div 2 ELSE 0
  IN  IF n > 0 /\ 18 + 2 * n > PAGE_SIZE THEN [ok |-> FALSE]
      ELSE [ok |-> TRUE, pointers |-> [i \in 1 .. n |-> u16_from_le(pg, 18 + 2 * (i - 1))]]

\* the closures handed to read_metadata as parse_entry, by name
parse_entry(f, pg, pointer) ==
  IF f = "class" THEN parse_class(pg, pointer) ELSE parse_attribute(pg, pointer)

\* read_metadata on the page the file holds
read_metadata(pg, f) ==
  LET sc == scan_pointers(pg)
  IN  IF ~sc.ok THEN [result |-> "panic", out |-> <<>>]
      ELSE LET parsed == [i \in 1 .. Len(sc.pointers) |-> parse_entry(f, pg, sc.pointers[i])]
           IN  IF \E i \in 1 .. Len(parsed) : ~parsed[i].ok
               THEN [result |-> "panic", out |-> <<>>]
               ELSE [result |-> "ok",
                     out |-> [i \in 1 .. Len(parsed) |-> parsed[i].entry]]

read_postgres_class(pg) == read_metadata(pg, "class")

read_postgres_attribute(pg) == read_metadata(pg, "attribute")

\* ------------------------------------------------------------- the inputs
Fill(n, b) == [i \in 1 .. n |-> b]

\* encoded size of a table record with an empty name
ClassFixed == Len(encode_class([table_id |-> u32(0), table_name |-> <<>>]))

\* name lengths of the large table records: the record that fills a fresh
\* page exactly, the one a byte larger, and a name whose length does not
\* fit in 16 bits
FitLen == PAGE_SIZE - 18 - 2 - ClassFixed
OverLen == FitLen + 1
HugeLen == U16

Tables ==
  { [table_id |-> u32(1), table_name |-> <<97, 195, 169>>],
    [table_id |-> u32(3), table_name |-> Fill(FitLen, 97)],
    [table_id |-> u32(260), table_name |-> Fill(OverLen, 98)],
    [table_id |-> u32(7), table_name |-> Fill(HugeLen, 100)] }

Columns ==
  { [column_id |-> u32(1), table_id |-> u32(42),
     column_name |-> <<117, 115, 101, 114, 95, 105, 100>>,
     data_type |-> <<73, 78, 84, 69, 71, 69, 82>>,
     is_nullable |-> FALSE],
    [column_id |-> u32(3), table_id |-> u32(42),
     column_name |-> <<105, 100>>,
     data_type |-> <<>>,
     is_nullable |-> TRUE] }

SeqsUpTo(S, n) == UNION { [1 .. m -> S] : m \in 0 .. n }

ClassBatches == SeqsUpTo(Tables, MaxBatch)

AttributeBatches == SeqsUpTo(Columns, MaxBatch)

\* ------------------------------------------------------ the state machine
\* exists, page: the file and the page it holds
\* stored, spans: the records appended by the calls that returned Ok since
\*   the file was created, and where each was put ([off, size])
\* calls: the number of those calls
\* last: the last call made and what it returned (n records of size bytes
\*   in all given, stopped at record k, out read)
NoCall == [op |-> "none", result |-> "ok", n |-> 0, size |-> 0, k |-> 0, out |-> <<>>]

\* wr[w]: an invocation of write_metadata taken step by step: pc is "loop"
\*   from the load of the page to the return, buf, lower and higher are its
\*   in-memory page and cursors, i the entry the loop is at, start the page
\*   it loaded, alone whether no other call has written the file since, and
\*   result how its last invocation ended
\* inv: the invocations begun; overlap: an invocation was begun while another
\*   was between its load and its return
Writers == {1, 2}

Idle ==
  [pc |-> "idle", op |-> "none", batch |-> <<>>, entries |-> <<>>, i |-> 0,
   buf |-> <<>>, lower |-> 0, higher |-> 0, start |-> <<>>, alone |-> FALSE,
   result |-> "none"]

\* the file was written under the invocations in progress
Touched == [w \in Writers |-> [wr[w] EXCEPT !.alone = FALSE]]

Init ==
  /\ exists = FALSE
  /\ page = ZeroPage
  /\ stored = <<>>
  /\ spans = <<>>
  /\ calls = 0
  /\ last = NoCall
  /\ wr = [w \in Writers |-> Idle]
  /\ inv = 0
  /\ overlap = FALSE

\* a create that opens the file without truncating it and writes the
\* header only
Create_header_only ==
  /\ exists' = TRUE
  /\ page' = IF exists
             THEN SubSeq(create_postgres_file, 1, 18) \o SubSeq(page, 19, Len(page))
             ELSE create_postgres_file
  /\ stored' = <<>>
  /\ spans' = <<>>
  /\ calls' = 0
  /\ last' = [NoCall EXCEPT !.op = "create", !.n = Len(stored)]
  /\ wr' = Touched
  /\ UNCHANGED <<inv, overlap>>

\* File::create truncates whatever the file held; last.n is the number of
\* records it held
Create ==
  /\ exists' = TRUE
  /\ page' = create_postgres_file
  /\ stored' = <<>>
  /\ spans' = <<>>
  /\ calls' = 0
  /\ last' = [NoCall EXCEPT !.op = "create", !.n = Len(stored)]
  /\ wr' = Touched
  /\ UNCHANGED <<inv, overlap>>

RECURSIVE SumSizes(_)
SumSizes(sp) == IF sp = <<>> THEN 0 ELSE sp[1].size + SumSizes(Tail(sp))

\* where the entries of a call that returned Ok were put
NewSpans(pg, entries) ==
  [i \in 1 .. Len(entries) |->
     [off |-> Higher(pg) - SumSizes([j \in 1 .. i |-> [size |-> Len(entries[j])]]),
      size |-> Len(entries[i])]]

\* a write call: op names it, batch is the records given, entries their
\* encodings and r what write_metadata returned
Written(op, batch, entries, r) ==
  /\ page' = r.page
  /\ stored' = IF r.result = "ok" THEN stored \o batch ELSE stored
  /\ spans' = IF r.result = "ok" THEN spans \o NewSpans(page, entries) ELSE spans
  /\ calls' = IF r.result = "ok" THEN calls + 1 ELSE calls
  /\ last' = [NoCall EXCEPT !.op = op, !.result = r.result, !.n = Len(batch),
                            !.size = SumSizes(NewSpans(page, entries)), !.k = r.k]
  /\ UNCHANGED <<exists, conc>>

\* a call on a file that does not exist: OpenOptions::open fails
NoFile(op, batch) ==
  /\ ~exists
  /\ last' = [NoCall EXCEPT !.op = op, !.result = "ioerr", !.n = Len(batch)]
  /\ UNCHANGED <<exists, page, stored, spans, calls, conc>>

WriteClass(batch) ==
  /\ Len(stored) + Len(batch) <= MaxRecords
  /\ calls < MaxCalls
  /\ \/ NoFile("write_class", batch)
     \/ /\ exists
        /\ Written("write_class", batch,
                   [i \in 1 .. Len(batch) |-> encode_class(batch[i])],
                   write_postgres_class(page, batch))

WriteAttribute(batch) ==
  /\ Len(stored) + Len(batch) <= MaxRecords
  /\ calls < MaxCalls
  /\ \/ NoFile("write_attribute", batch)
     \/ /\ exists
        /\ Written("write_attribute", batch,
                   [i \in 1 .. Len(batch) |-> encode_attribute(batch[i])],
                   write_postgres_attribute(page, batch))

\* a read that writes the page back with the flags cleared
Read_clearing_flags(op, r) ==
  /\ last' = [NoCall EXCEPT !.op = op, !.result = r.result, !.out = r.out]
  /\ page' = copy_from_slice(page, header_offsets.flags[1], u16_to_le(0))
  /\ UNCHANGED <<exists, stored, spans, calls, conc>>

Read(op, r) ==
  /\ last' = [NoCall EXCEPT !.op = op, !.result = r.result, !.out = r.out]
  /\ UNCHANGED <<exists, page, stored, spans, calls, conc>>

ReadClass ==
  \/ NoFile("read_class", <<>>)
  \/ exists /\ Read("read_class", read_postgres_class(page))

ReadAttribute ==
  \/ NoFile("read_attribute", <<>>)
  \/ exists /\ Read("read_attribute", read_postgres_attribute(page))

Next ==
  \/ Create
  \/ \E batch \in ClassBatches : WriteClass(batch)
  \/ \E batch \in AttributeBatches : WriteAttribute(batch)
  \/ ReadClass
  \/ ReadAttribute

Spec == Init /\ [][Next]_vars

\* --------------------------------------- write_metadata taken step by step
\* the invocations that two callers make without serializing them
Encoded(op, batch) ==
  [i \in 1 .. Len(batch) |->
     IF op = "write_class" THEN encode_class(batch[i]) ELSE encode_attribute(batch[i])]

\* the batches the step-by-step invocations are given: the small table
\* record, the one that fills the page or a column record, once or twice
StepTables == { t \in Tables : Len(t.table_name) <= FitLen }

StepColumns == { c \in Columns : ~c.is_nullable }

OnceOrTwice(S) == { <<r>> : r \in S } \cup { <<r, r>> : r \in S }

StepClassBatches == OnceOrTwice(StepTables)

StepAttributeBatches == OnceOrTwice(StepColumns)

\* the open and the load of the page, up to the loop
Begin(w, op, batch) ==
  /\ wr[w].pc = "idle"
  /\ inv < MaxInv
  /\ inv' = inv + 1
  /\ \/ /\ ~exists
        /\ last' = [NoCall EXCEPT !.op = op, !.result = "ioerr", !.n = Len(batch)]
        /\ wr' = [wr EXCEPT ![w] = [Idle EXCEPT !.result = "ioerr"]]
        /\ UNCHANGED overlap
     \/ /\ exists
        /\ LET buf == read_exact(page)
           IN  wr' = [wr EXCEPT ![w] =
                        [pc |-> "loop", op |-> op, batch |-> batch,
                         entries |-> Encoded(op, batch), i |-> 1,
                         buf |-> buf, lower |-> Lower(buf), higher |-> Higher(buf),
                         start |-> page, alone |-> TRUE, result |-> "none"]]
        /\ overlap' = (overlap \/ \E v \in Writers \ {w} : wr[v].pc = "loop")
        /\ UNCHANGED last
  /\ UNCHANGED <<exists, page, stored, spans, calls>>

\* what one iteration of the loop makes of the invocation w
Iterate(w) ==
  write_entry([result |-> "ok", page |-> wr[w].buf, lower |-> wr[w].lower,
               higher |-> wr[w].higher, k |-> wr[w].i],
              wr[w].entries[wr[w].i],
              calculate_size("entry_len", wr[w].entries[wr[w].i]))

\* how an invocation that returns leaves wr[w]
Returned(w, result) == [Idle EXCEPT !.result = result, !.i = wr[w].i]

\* the effect of an iteration on the invocation: it goes on, or returns the
\* error (or panics) without a write to the file
Iterated(w, nx) ==
  IF nx.result = "ok"
  THEN /\ wr' = [wr EXCEPT ![w].buf = nx.page, ![w].lower = nx.lower,
                           ![w].higher = nx.higher, ![w].i = wr[w].i + 1]
       /\ UNCHANGED last
  ELSE /\ wr' = [wr EXCEPT ![w] = Returned(w, nx.result)]
       /\ last' = [NoCall EXCEPT !.op = wr[w].op, !.result = nx.result,
                                 !.n = Len(wr[w].batch), !.k = wr[w].i]

\* an iteration that also writes the buffer to the file
Step_write_through(w) ==
  /\ wr[w].pc = "loop"
  /\ wr[w].i <= Len(wr[w].entries)
  /\ Iterated(w, Iterate(w))
  /\ page' = IF Iterate(w).result = "ok" THEN Iterate(w).page ELSE page
  /\ UNCHANGED <<exists, stored, spans, calls, inv, overlap>>

\* one iteration of the loop over the entries, on the in-memory page
Step(w) ==
  /\ wr[w].pc = "loop"
  /\ wr[w].i <= Len(wr[w].entries)
  /\ Iterated(w, Iterate(w))
  /\ UNCHANGED <<exists, page, stored, spans, calls, inv, overlap>>

\* after the loop: the header, the seek and the write of the whole page
Persist(w) ==
  /\ wr[w].pc = "loop"
  /\ wr[w].i > Len(wr[w].entries)
  /\ page' = write_header([page |-> wr[w].buf, lower |-> wr[w].lower,
                           higher |-> wr[w].higher])
  /\ stored' = stored \o wr[w].batch
  /\ spans' = spans \o NewSpans(wr[w].start, wr[w].entries)
  /\ calls' = calls + 1
  /\ last' = [NoCall EXCEPT !.op = wr[w].op, !.n = Len(wr[w].batch),
                            !.size = SumSizes(NewSpans(wr[w].start, wr[w].entries))]
  /\ wr' = [v \in Writers |-> IF v = w THEN Returned(w, "ok") ELSE Touched[v]]
  /\ UNCHANGED <<exists, inv, overlap>>

\* the process of an invocation stops before its write
Crash(w) ==
  /\ wr[w].pc = "loop"
  /\ wr' = [wr EXCEPT ![w] = Returned(w, "crash")]
  /\ UNCHANGED <<exists, page, stored, spans, calls, last, inv, overlap>>

NextSteps ==
  \/ Create
  \/ \E w \in Writers : \E batch \in StepClassBatches : Begin(w, "write_class", batch)
  \/ \E w \in Writers : \E batch \in StepAttributeBatches : Begin(w, "write_attribute", batch)
  \/ \E w \in Writers : Step(w)
  \/ \E w \in Writers : Persist(w)
  \/ \E w \in Writers : Crash(w)

SpecSteps == Init /\ [][NextSteps]_vars

\* ------------------------------------------------------------- properties
WriteOps == {"write_class", "write_attribute"}

ReadOps == {"read_class", "read_attribute"}

AllTables(recs) == \A i \in 1 .. Len(recs) : recs[i] \in Tables

AllColumns(recs) == \A i \in 1 .. Len(recs) : recs[i] \in Columns

\* a write call has just returned r on an existing file
Wrote(r) == exists /\ last'.op \in WriteOps /\ last'.result = r

\* C1: a read that follows create and one successful append of the records
\* R with the matching codec returns exactly R
C1_RoundTrip ==
  /\ (exists /\ calls = 1 /\ last.op = "read_class" /\ AllTables(stored))
       => (last.result = "ok" /\ last.out = stored)
  /\ (exists /\ calls = 1 /\ last.op = "read_attribute" /\ AllColumns(stored))
       => (last.result = "ok" /\ last.out = stored)

\* C2: on every page on disk, 18 <= lower <= higher <= 8192
C2_PageInvariant ==
  exists => (18 <= Lower(page) /\ Lower(page) <= Higher(page)
             /\ Higher(page) <= PAGE_SIZE)

\* C3: a single record of size higher - lower - 2 is accepted, one of size
\* higher - lower - 1 is refused, and a record is accepted only if
\* 2 + size <= higher - lower
C3_FitBoundary ==
  [][(exists /\ last'.op \in WriteOps /\ last'.n = 1) =>
       /\ (last'.size = Higher(page) - Lower(page) - 2) => (last'.result = "ok")
       /\ (last'.size = Higher(page) - Lower(page) - 1) => (last'.result = "err")
       /\ (last'.result = "ok") => (2 + last'.size <= Higher(page) - Lower(page))
    ]_vars

\* C4: a call that takes the records' total size plus 2 bytes each past
\* 8192 - 18 returns the space error
C4_SpaceExhaustion ==
  [][(exists /\ last'.op \in WriteOps
        /\ SumSizes(spans) + 2 * Len(spans) + last'.size + 2 * last'.n
             > PAGE_SIZE - 18)
       => (last'.result = "err")]_vars

\* C5: a call that fails with the space error leaves the page on disk, and
\* so the records a read returns, as they were before the call
C5_FailedBatchAtomic ==
  [][Wrote("err") =>
       (page' = page /\ exists' = exists /\ stored' = stored)]_vars

C5_Witness ==
  /\ exists
  /\ last.op \in WriteOps
  /\ last.result = "err"
  /\ last.k >= 2

\* C6: after N records appended in all, lower = 18 + 2N and
\* higher = 8192 - (the sum of their encoded sizes)
C6_DirectoryGrowth ==
  exists => /\ Lower(page) = 18 + 2 * Len(stored)
            /\ Higher(page) = PAGE_SIZE - SumSizes(spans)
            /\ Len(spans) = Len(stored)

C6_Witness ==
  /\ exists
  /\ calls = 2
  /\ Len(stored) = 2
  /\ last.op \in WriteOps
  /\ last.result = "ok"

\* C7: the page create writes has lsn 12345678, checksum 42, flags 40,
\* lower 18, higher 8192, special_space 8192 and zeros after the header, and
\* a read right after create returns no record
C7_FreshPage ==
  /\ [](last.op = "create" =>
          /\ exists
          /\ Lsn(page) = u64(12345678)
          /\ Checksum(page) = 42
          /\ Flags(page) = 40
          /\ Lower(page) = 18
          /\ Higher(page) = PAGE_SIZE
          /\ SpecialSpace(page) = PAGE_SIZE
          /\ \A i \in 18 .. (PAGE_SIZE - 1) : at(page, i) = 0)
  /\ [][(last.op = "create" /\ last'.op \in ReadOps) =>
          (last'.result = "ok" /\ last'.out = <<>>)]_vars

C7_Witness ==
  /\ exists
  /\ calls = 0
  /\ last.op \in ReadOps
  /\ last.result = "ok"
  /\ last.out = <<>>

\* C8: after any appends the lsn, checksum, flags and special_space fields
\* hold what create wrote
C8_HeaderFrame ==
  exists => /\ Lsn(page) = u64(12345678)
            /\ Checksum(page) = 42
            /\ Flags(page) = 40
            /\ SpecialSpace(page) = PAGE_SIZE

\* C9: a successful append leaves every directory entry that existed as it
\* was and adds the new entries after them in the order of the records
C9_DirectoryAppendOnly ==
  [][Wrote("ok") =>
       /\ \A i \in 0 .. (Len(stored) - 1) :
             u16_from_le(page', 18 + 2 * i) = u16_from_le(page, 18 + 2 * i)
       /\ \A i \in (Len(stored) + 1) .. Len(stored') :
             u16_from_le(page', 18 + 2 * (i - 1)) = spans'[i].off
    ]_vars

\* C10: a successful append changes no byte of the span of a record that
\* was stored before it
C10_RecordsImmutable ==
  [][Wrote("ok") =>
       \A i \in 1 .. Len(spans) :
          \A b \in spans[i].off .. (spans[i].off + spans[i].size - 1) :
             at(page', b) = at(page, b)
    ]_vars

\* the page on disk holds fewer records than the successful calls appended
LostUpdate == exists /\ 2 * Len(stored) > Lower(page) - 18

\* C11: records of a call that returned success are missing from the page
\* only if an invocation was begun while another was between its load and
\* its write; with the invocations one after the other none is lost
C11_LostUpdateOnlyUnserialized == LostUpdate => overlap

\* both invocations loaded the page before either wrote it, both returned
\* success, and the page holds the record of the second to write only
C11_Witness ==
  /\ LostUpdate
  /\ overlap
  /\ calls = 2
  /\ \A w \in Writers : wr[w].pc = "idle" /\ wr[w].result = "ok"
  /\ Len(stored) = 2
  /\ AllTables(stored)
  /\ read_postgres_class(page) = [result |-> "ok", out |-> <<stored[2]>>]

\* the invocation w takes a step of its own
OwnStep(w) == wr'[w].pc # wr[w].pc \/ wr'[w].i # wr[w].i

\* C12: of the steps of an invocation only the final write changes the page
\* on disk, and an invocation that stops before it, no other call having
\* written the file meanwhile, leaves the page it loaded
C12_CrashBeforePersist ==
  [][\A w \in Writers :
       /\ (OwnStep(w) /\ wr'[w].result # "ok")
            => (page' = page /\ exists' = exists)
       /\ (wr[w].pc = "loop" /\ wr'[w].result = "crash" /\ wr[w].alone)
            => (page' = wr[w].start)
    ]_vars

C12_Witness ==
  /\ exists
  /\ Len(stored) >= 1
  /\ \E w \in Writers : wr[w].result = "crash" /\ wr[w].i >= 2

\* C13: create on a file that holds records leaves the empty page: lower 18,
\* higher 8192, nothing after the header, and a read returns no record
C13_CreateResets ==
  [][(exists /\ Len(stored) > 0 /\ last'.op = "create") =>
       /\ exists'
       /\ Lower(page') = 18
       /\ Higher(page') = PAGE_SIZE
       /\ \A i \in 18 .. (PAGE_SIZE - 1) : at(page', i) = 0
       /\ read_postgres_class(page') = [result |-> "ok", out |-> <<>>]
       /\ read_postgres_attribute(page') = [result |-> "ok", out |-> <<>>]
    ]_vars

C13_Witness ==
  /\ exists
  /\ last.op = "create"
  /\ last.n > 0
  /\ stored = <<>>

\* C14: no read aborts: a record that does not decode gives an error value
C14_TypedDecodeErrors ==
  (exists /\ last.op \in ReadOps) => (last.result # "panic")

\* C15: a single record is refused with the space error whenever its true
\* size exceeds higher, or lower + 2 exceeds the page size
C15_TrueSizeRejected ==
  [][(exists /\ last'.op \in WriteOps /\ last'.n = 1
        /\ (Higher(page) < last'.size \/ Lower(page) + 2 > PAGE_SIZE))
       => (last'.result = "err" /\ page' = page)]_vars

\* C16: after two or more successful appends with one codec, a read with
\* that codec returns all the records in call order and supplied order,
\* (lower - 18) / 2 of them
C16_InsertionOrder ==
  /\ (exists /\ calls >= 2 /\ Len(stored) >= 2 /\ last.op = "read_class" /\ AllTables(stored))
       => /\ last.result = "ok"
          /\ last.out = stored
          /\ 2 * Len(last.out) = Lower(page) - 18
  /\ (exists /\ calls >= 2 /\ Len(stored) >= 2 /\ last.op = "read_attribute" /\ AllColumns(stored))
       => /\ last.result = "ok"
          /\ last.out = stored
          /\ 2 * Len(last.out) = Lower(page) - 18

\* the ways to cut a batch in two
Splits(batch) ==
  { <<SubSeq(batch, 1, i), SubSeq(batch, i + 1, Len(batch))>> : i \in 0 .. Len(batch) }

\* appending part a and then part b in two calls, with the codec op names
TwoCalls(op, pg, a, b) ==
  LET ra == IF op = "write_class" THEN write_postgres_class(pg, a)
            ELSE write_postgres_attribute(pg, a)
      rb == IF op = "write_class" THEN write_postgres_class(ra.page, b)
            ELSE write_postgres_attribute(ra.page, b)
  IN  [ok |-> ra.result = "ok" /\ rb.result = "ok", page |-> rb.page]

OneCall(op, pg, batch) ==
  IF op = "write_class" THEN write_postgres_class(pg, batch)
  ELSE write_postgres_attribute(pg, batch)

\* the page has just been written: by create or by a successful append
PageWritten == exists /\ last.result = "ok" /\ last.op \in (WriteOps \cup {"create"})

SplitsAgree(op, batches) ==
  \A batch \in batches :
     \A ab \in Splits(batch) :
        LET two == TwoCalls(op, page, ab[1], ab[2])
        IN  two.ok => LET one == OneCall(op, page, batch)
                      IN  one.result = "ok" /\ one.page = two.page

\* C17: from every page on disk, if appending A and then B both succeed, the
\* page they leave is the page the single append of A followed by B leaves
C17_BatchSplitting ==
  PageWritten =>
    /\ SplitsAgree("write_class", ClassBatches)
    /\ SplitsAgree("write_attribute", AttributeBatches)

C17_Witness ==
  /\ PageWritten
  /\ Len(stored) >= 1
  /\ \E batch \in ClassBatches :
        \E ab \in Splits(batch) :
           /\ Len(ab[1]) >= 1
           /\ Len(ab[2]) >= 1
           /\ TwoCalls("write_class", page, ab[1], ab[2]).ok

\* C18: on a page with records the directory entries locate the records:
\* the last entry is higher, and each entry is at or above higher and ends
\* where the entry before it starts (the first at 8192)
C18_DirectoryLocates ==
  (exists /\ Len(stored) >= 1) =>
    LET sc == scan_pointers(page)
    IN  /\ sc.ok
        /\ Len(sc.pointers) = Len(spans)
        /\ sc.pointers[Len(sc.pointers)] = Higher(page)
        /\ \A i \in 1 .. Len(sc.pointers) :
              /\ Higher(page) <= sc.pointers[i]
              /\ sc.pointers[i] + spans[i].size <= PAGE_SIZE
              /\ sc.pointers[i] + spans[i].size
                   = (IF i = 1 THEN PAGE_SIZE ELSE sc.pointers[i - 1])

\* C19: a read leaves the page on disk as it was, so that a second read
\* returns what the first returned
C19_ReadsDoNotMutate ==
  [][(exists /\ last'.op \in ReadOps) =>
       /\ page' = page
       /\ exists' = exists
       /\ (last'.op = "read_class") =>
             (read_postgres_class(page') = [result |-> last'.result, out |-> last'.out])
       /\ (last'.op = "read_attribute") =>
             (read_postgres_attribute(page') = [result |-> last'.result, out |-> last'.out])
    ]_vars

C19_Witness ==
  /\ exists
  /\ last.op \in ReadOps
  /\ last.result = "ok"
  /\ Len(last.out) >= 1

====
